---- MODULE Spec2Model ----
(***************************************************************************)
(* Model of nchook.py: the notification-database watcher.                  *)
(*                                                                         *)
(* One run of run_watcher is a sequential process whose position is pc.    *)
(* The environment inserts records into the database, creates and deletes  *)
(* the WAL file, lets I/O calls fail, and sends the stop signal.           *)
(*                                                                         *)
(* Text is a sequence of one-character strings, so that strip() and        *)
(* startswith() are computed the way Python computes them.  Values of the  *)
(* dynamically typed structures (plist, JSON) are tagged records           *)
(* [t |-> type, v |-> value].                                              *)
(***************************************************************************)
EXTENDS Integers, Sequences, FiniteSets, TLC

\* ------------------------------------------------------------------------
\* Bounds of the model
\* ------------------------------------------------------------------------
\* Number of records the source inserts during one run (rec_id 1..MaxRows).
MaxRows == 3
\* Number of records the source inserts in the runs checked under fairness.
MaxLiveRows == 2

\* ------------------------------------------------------------------------
\* Program constants
\* ------------------------------------------------------------------------
COCOA_TO_UNIX_OFFSET == 978307200

DEFAULT_BUNDLE_IDS == {"com.microsoft.teams2", "com.microsoft.teams"}

NOISE_PATTERNS ==
    << <<"L","i","k","e","d">>,
       <<"L","o","v","e","d">>,
       <<"L","a","u","g","h","e","d"," ","a","t">>,
       <<"W","a","s"," ","s","u","r","p","r","i","s","e","d"," ","b","y">>,
       <<"W","a","s"," ","s","a","d"," ","a","t">>,
       <<"i","s"," ","c","a","l","l","i","n","g"," ","y","o","u">>,
       <<"M","i","s","s","e","d"," ","c","a","l","l"," ","f","r","o","m">>,
       <<"I","n","c","o","m","i","n","g"," ","c","a","l","l">>,
       <<"j","o","i","n","e","d"," ","t","h","e"," ","m","e","e","t","i","n","g">>,
       <<"l","e","f","t"," ","t","h","e"," ","m","e","e","t","i","n","g">>,
       <<"M","e","e","t","i","n","g"," ","s","t","a","r","t","e","d">>,
       <<"i","s"," ","p","r","e","s","e","n","t","i","n","g">>,
       <<"h","a","s"," ","b","e","e","n"," ","a","d","d","e","d">>,
       <<"h","a","s"," ","l","e","f","t">>,
       <<"h","a","s"," ","j","o","i","n","e","d">>,
       <<"i","s"," ","t","y","p","i","n","g">> >>

SYSTEM_ALERT_TITLE ==
    <<"M","i","c","r","o","s","o","f","t"," ","T","e","a","m","s">>

SENTENCE_ENDINGS == {".", "!", "?", "\"", "'", ")"}

\* ------------------------------------------------------------------------
\* Tagged values
\* ------------------------------------------------------------------------
Str(s)  == [t |-> "str",  v |-> s]
Num(n)  == [t |-> "num",  v |-> n]
Dict(d) == [t |-> "dict", v |-> d]
List    == [t |-> "list", v |-> <<>>]
Null    == [t |-> "null", v |-> <<>>]
\* A JSON real number n + 1/2.
Float(n) == [t |-> "float", v |-> n]

\* dict.get(key, default)
Get(d, key, default) == IF key \in DOMAIN d THEN d[key] ELSE default

\* ------------------------------------------------------------------------
\* Text
\* ------------------------------------------------------------------------
IsSpace(c) == c \in {" ", "\t", "\n"}

RECURSIVE LStrip(_)
LStrip(s) == IF s # <<>> /\ IsSpace(Head(s)) THEN LStrip(Tail(s)) ELSE s

RECURSIVE RStrip(_)
RStrip(s) == IF s # <<>> /\ IsSpace(s[Len(s)])
             THEN RStrip(SubSeq(s, 1, Len(s) - 1)) ELSE s

\* str.strip()
Strip(s) == RStrip(LStrip(s))

\* str.startswith(p)
StartsWith(s, p) == Len(p) <= Len(s) /\ SubSeq(s, 1, Len(p)) = p

\* ------------------------------------------------------------------------
\* Binary plist parsing (parse_notification)
\* ------------------------------------------------------------------------
\* A blob is [parseable |-> BOOLEAN, plist |-> tagged value]: plistlib.loads
\* either fails (both attempts) or yields the top-level object.
\* Result: [st |-> "ok", notif |-> ...], [st |-> "none"] (returns None) or
\* [st |-> "raise"] (an exception other than the ones caught leaves the
\* function: .get on a non-dict, + on a non-number).
parse_notification(raw_data) ==
    IF ~raw_data.parseable THEN [st |-> "none"]
    ELSE IF raw_data.plist.t # "dict" THEN [st |-> "raise"]
    ELSE LET plist      == raw_data.plist.v
             req        == Get(plist, "req", Dict(<<>>))
             cocoa_date == Get(plist, "date", Null)
         IN  IF req.t # "dict" THEN [st |-> "raise"]
             ELSE IF cocoa_date.t \notin {"null", "num"} THEN [st |-> "raise"]
             ELSE [st |-> "ok",
                   notif |-> [app       |-> Get(plist, "app", Str(<<>>)),
                              title     |-> Get(req.v, "titl", Str(<<>>)),
                              subtitle  |-> Get(req.v, "subt", Str(<<>>)),
                              body      |-> Get(req.v, "body", Str(<<>>)),
                              timestamp |-> IF cocoa_date.t = "num"
                                            THEN cocoa_date.v + COCOA_TO_UNIX_OFFSET
                                            ELSE 0]]

\* ------------------------------------------------------------------------
\* Filter chain
\* ------------------------------------------------------------------------
passes_bundle_id_filter(notif, bundle_ids) == notif.app \in bundle_ids

passes_allowlist_filter(notif) ==
    Strip(notif.title.v) # <<>> /\ Strip(notif.body.v) # <<>>

\* Variant: the title is compared without strip().
is_system_alert_nostrip(notif) == notif.title.v = SYSTEM_ALERT_TITLE

is_system_alert(notif) == Strip(notif.title.v) = SYSTEM_ALERT_TITLE

is_noise_notification(body, title) ==
    LET body_stripped == Strip(body)
    IN  \E i \in 1..Len(NOISE_PATTERNS) :
            StartsWith(body_stripped, NOISE_PATTERNS[i])
            \/ body_stripped = NOISE_PATTERNS[i]

\* The chain raises when .strip() is applied to a field that is not text:
\* the title in stage 2, the body in stage 2 when the title is not blank.
filter_raises(notif, config) ==
    /\ passes_bundle_id_filter(notif, config.bundle_ids)
    /\ \/ notif.title.t # "str"
       \/ (Strip(notif.title.v) # <<>> /\ notif.body.t # "str")

passes_filter(notif, config) ==
    IF ~passes_bundle_id_filter(notif, config.bundle_ids) THEN FALSE
    ELSE IF ~passes_allowlist_filter(notif) THEN FALSE
    ELSE IF is_system_alert(notif) THEN FALSE
    ELSE IF is_noise_notification(notif.body.v, notif.title.v) THEN FALSE
    ELSE TRUE

\* ------------------------------------------------------------------------
\* Classification and outbound payload
\* ------------------------------------------------------------------------
\* c in s
Contains(s, c) == \E i \in 1..Len(s) : s[i] = c

\* notif.get("subtitle", "").strip() raises when the subtitle is not text.
classify_raises(notif) == notif.subtitle.t # "str"

\* Variant: the subtitle is examined before the body.
classify_notification_subtitle_first(notif) ==
    LET subtitle == Strip(notif.subtitle.v)
        body     == notif.body.v
        title    == Strip(notif.title.v)
    IN  IF subtitle # <<>> /\ (Contains(subtitle, "|") \/ Contains(subtitle, ">"))
        THEN "channel_message"
        ELSE IF subtitle # <<>> /\ subtitle # title THEN "channel_message"
        ELSE IF Contains(body, "@") THEN "mention"
        ELSE "direct_message"

classify_notification(notif) ==
    LET subtitle == Strip(notif.subtitle.v)
        body     == notif.body.v
    IN  IF Contains(body, "@") THEN "mention"
        ELSE IF subtitle # <<>> /\ (Contains(subtitle, "|") \/ Contains(subtitle, ">"))
        THEN "channel_message"
        ELSE LET title == Strip(notif.title.v)
             IN  IF subtitle # <<>> /\ subtitle # title THEN "channel_message"
                 ELSE "direct_message"

\* Variant: a body of exactly the threshold length is not looked at.
detect_truncation_gt(body) ==
    IF Len(body) <= 150 THEN FALSE
    ELSE IF body # <<>> /\ body[Len(body)] \in SENTENCE_ENDINGS THEN FALSE
    ELSE TRUE

detect_truncation(body) ==
    IF Len(body) < 150 THEN FALSE
    ELSE IF body # <<>> /\ body[Len(body)] \in SENTENCE_ENDINGS THEN FALSE
    ELSE TRUE

\* The dict build_webhook_payload returns; the formatted time is kept as
\* the number of seconds it was formatted from, None as Null.
build_webhook_payload(notif, msg_type) ==
    [senderName |-> notif.title,
     chatId     |-> notif.subtitle,
     content    |-> notif.body,
     timestamp  |-> IF notif.timestamp > 0
                    THEN [t |-> "iso", v |-> notif.timestamp] ELSE Null,
     type       |-> msg_type,
     subtitle   |-> notif.subtitle,
     source     |-> "macos-notification-center",
     truncated  |-> detect_truncation(notif.body.v)]

\* ------------------------------------------------------------------------
\* Cursor file (load_state, check_db_consistency)
\* ------------------------------------------------------------------------
\* Content of a file: [k |-> "absent"], [k |-> "unreadable"] (open() fails
\* with an OSError other than FileNotFoundError), [k |-> "badjson"] (empty,
\* truncated or otherwise not JSON), [k |-> "json", v |-> tagged value].
Absent     == [k |-> "absent"]
Unreadable == [k |-> "unreadable"]
BadJson    == [k |-> "badjson"]
Json(v)    == [k |-> "json", v |-> v]

\* What json.dump({"last_rec_id": n}) writes.
StateJson(n) == Json(Dict([last_rec_id |-> Num(n)]))

Digits == <<"0","1","2","3","4","5","6","7","8","9">>

IsDigit(c) == \E i \in 1..10 : Digits[i] = c

DigitVal(c) == (CHOOSE i \in 1..10 : Digits[i] = c) - 1

RECURSIVE DecimalVal(_)
DecimalVal(s) == IF s = <<>> THEN 0
                 ELSE 10 * DecimalVal(SubSeq(s, 1, Len(s) - 1)) + DigitVal(s[Len(s)])

\* int(x): [raises |-> exception name or "", val |-> result]
PyInt(x) ==
    CASE x.t = "num"   -> [raises |-> "", val |-> x.v]
      [] x.t = "float" -> [raises |-> "", val |-> x.v]
      [] x.t = "str"   -> IF Strip(x.v) # <<>>
                             /\ \A i \in 1..Len(Strip(x.v)) : IsDigit(Strip(x.v)[i])
                          THEN [raises |-> "", val |-> DecimalVal(Strip(x.v))]
                          ELSE [raises |-> "ValueError", val |-> 0]
      [] OTHER         -> [raises |-> "TypeError", val |-> 0]

LoadCaught == {"FileNotFoundError", "JSONDecodeError", "KeyError",
               "ValueError", "TypeError"}

\* The exception the body of load_state's try block ends with ("" if none)
\* and the value it returns in that case.
LoadBody(file) ==
    CASE file.k = "absent"     -> [raises |-> "FileNotFoundError", val |-> 0]
      [] file.k = "unreadable" -> [raises |-> "PermissionError", val |-> 0]
      [] file.k = "badjson"    -> [raises |-> "JSONDecodeError", val |-> 0]
      [] OTHER ->
           IF file.v.t # "dict" THEN [raises |-> "AttributeError", val |-> 0]
           ELSE PyInt(Get(file.v.v, "last_rec_id", Num(0)))

\* load_state: [raises |-> BOOLEAN, val |-> the integer returned]
load_state(file) ==
    LET r == LoadBody(file)
    IN  IF r.raises = "" THEN [raises |-> FALSE, val |-> r.val]
        ELSE IF r.raises \in LoadCaught THEN [raises |-> FALSE, val |-> 0]
        ELSE [raises |-> TRUE, val |-> 0]

\* SELECT MAX(rec_id) FROM record, None taken as 0
MaxRecId(rows) ==
    IF rows = {} THEN 0
    ELSE CHOOSE m \in {r.rec_id : r \in rows} : \A r \in rows : r.rec_id <= m

\* Variant: a purge lowers the cursor to the table's maximum, not to 0.
check_db_consistency_clamp(rows, persisted_rec_id) ==
    LET max_rec_id == MaxRecId(rows)
    IN  IF persisted_rec_id > max_rec_id THEN max_rec_id ELSE persisted_rec_id

\* Variant: a cursor equal to the table's maximum counts as a purge.
check_db_consistency_ge(rows, persisted_rec_id) ==
    LET max_rec_id == MaxRecId(rows)
    IN  IF persisted_rec_id >= max_rec_id THEN 0 ELSE persisted_rec_id

check_db_consistency(rows, persisted_rec_id) ==
    LET max_rec_id == MaxRecId(rows)
    IN  IF persisted_rec_id > max_rec_id THEN 0 ELSE persisted_rec_id

\* ------------------------------------------------------------------------
\* Inputs of a run
\* ------------------------------------------------------------------------
T_Al    == <<"A","l">>
T_hi    == <<"h","i">>
T_Liked == <<"L","i","k","e","d">>

Blob(titl, body) ==
    [parseable |-> TRUE,
     plist |-> Dict([app  |-> Str(<<"t">>),
                     date |-> Num(10),
                     req  |-> Dict([titl |-> Str(titl), subt |-> Str(<<>>),
                                    body |-> Str(body)])])]

\* The record contents the source inserts: a chat message, a reaction
\* (noise), bytes that are no plist, and a plist whose top level is a list.
RowSamples ==
    << [data |-> Blob(T_Al, T_hi),    identifier |-> "com.microsoft.teams2"],
       [data |-> Blob(T_Al, T_Liked), identifier |-> "com.microsoft.teams2"],
       [data |-> [parseable |-> FALSE, plist |-> Null],
                                      identifier |-> "com.microsoft.teams2"],
       [data |-> [parseable |-> TRUE, plist |-> List],
                                      identifier |-> "com.microsoft.teams2"] >>

\* run_watcher's config argument as main() passes it: load_config returns a
\* dict with a non-empty webhook_url, which is "http" (a URL urllib accepts)
\* or "noscheme" (text urllib.request.Request rejects with ValueError).
\* With --dry-run no request is built, so the two behave alike there.
Configs ==
    { [present |-> TRUE, webhook_url |-> "http",     bundle_ids |-> DEFAULT_BUNDLE_IDS],
      [present |-> TRUE, webhook_url |-> "noscheme", bundle_ids |-> DEFAULT_BUNDLE_IDS] }

\* Contents a cursor file can have, besides {"last_rec_id": n}.
OtherFiles ==
    << Absent, BadJson, Unreadable,
       Json(List), Json(Num(1)),
       Json(Dict([other |-> Num(1)])),
       Json(Dict([last_rec_id |-> Str(<<"x">>)])),
       Json(Dict([last_rec_id |-> Null])),
       Json(Dict([last_rec_id |-> Float(1)])),
       Json(Dict([last_rec_id |-> Str(<<"2">>)])) >>

\* ------------------------------------------------------------------------
\* State
\* ------------------------------------------------------------------------
VARIABLES
    pc,              \* position of run_watcher
    config, dry_run, \* arguments of run_watcher
    running,         \* module-level flag cleared by the signal handler
    db,              \* record table: set of [rec_id, src], src indexes RowSamples
    nextId,          \* next rec_id the source assigns
    stateFile,       \* content of the cursor file
    tmp,             \* content of the temp file of the save in progress
    tmp_bound,       \* save_state's local tmp_path has been assigned
    saveRet,         \* where the save in progress returns to
    last_rec_id,     \* in-memory cursor
    notifications,   \* result of the last query
    idx,             \* position of the for loop over notifications
    conn, kq, fd, kev,   \* handles: "None", "open" or "closed"
    osOpen,          \* descriptors of the watch (kqueue, WAL file) the process holds open
    walExists,       \* the WAL file exists
    delPending,      \* a delete/rename event is queued on the open kqueue
    fdStale,         \* the file fd refers to was deleted or renamed: no longer the WAL
    wal_was_deleted, \* local flag of the current iteration
    crashed,         \* "no", or the call whose exception left run_watcher
    \* history of the run, for stating the properties
    loaded,          \* value load_state returned (kept until the loop starts)
    purged,          \* check_db_consistency detected a purge in this run
    attempted,       \* rec_id -> number of post_webhook calls (2 = two or more)
    passStart,       \* [cur, file] when the current pass queried
    queryFailed,     \* the query of the current pass hit OperationalError
    skipped,         \* rec_ids whose blob failed to decode in the current pass
    passAttempts,    \* post_webhook calls of the current pass: [rec_id, res]
    payloads,        \* payloads build_webhook_payload returned in the current pass
    passSteps,       \* steps of the current iteration: "wake", "read", "event", "save"
    saveOld,         \* cursor file content when the last save started
    saveRes,         \* outcome of the last save: "none", "ok", "failed"
    tmpLeft          \* the last save returned leaving its temp file behind

progVars  == <<pc, config, dry_run, running, last_rec_id, notifications, idx,
               conn, kq, fd, kev, wal_was_deleted, crashed, saveRet, tmp_bound>>
envVars   == <<db, nextId, stateFile, tmp, walExists, delPending, fdStale, osOpen>>
histVars  == <<loaded, purged, attempted, passStart, queryFailed, skipped,
               passAttempts, payloads, passSteps, saveOld, saveRes, tmpLeft>>
vars      == <<progVars, envVars, histVars>>

NoPass == [cur |-> 0, file |-> Absent]

\* The state before run_watcher starts, with the cursor file drawn from
\* files.
InitWith(files) ==
    /\ pc = "load"
    /\ config \in Configs
    /\ dry_run \in (IF config.webhook_url = "http" THEN BOOLEAN ELSE {FALSE})
    /\ running = TRUE
    /\ db = {}
    /\ nextId = 1
    /\ \E i \in 1..Len(files) : stateFile = files[i]
    /\ tmp = Absent
    /\ tmp_bound = FALSE
    /\ tmpLeft = FALSE
    /\ saveRet = "none"
    /\ last_rec_id = 0
    /\ notifications = <<>>
    /\ idx = 1
    /\ conn = "None"
    /\ kq = "None"
    /\ fd = "None"
    /\ kev = "None"
    /\ osOpen = 0
    /\ walExists \in BOOLEAN
    /\ delPending = FALSE
    /\ fdStale = FALSE
    /\ wal_was_deleted = FALSE
    /\ crashed = "no"
    /\ loaded = 0
    /\ purged = FALSE
    /\ attempted = [i \in 1..MaxRows |-> 0]
    /\ passStart = NoPass
    /\ queryFailed = FALSE
    /\ skipped = {}
    /\ passAttempts = <<>>
    /\ payloads = <<>>
    /\ passSteps = <<>>
    /\ saveOld = Absent
    /\ saveRes = "none"

\* A run starts with no cursor file, one that is no JSON object, or one a
\* previous run saved: at rec_id 2, which is a purge when the table holds
\* fewer than two records at startup and a restart in mid-stream otherwise.
Init == InitWith(<<Absent, Json(List), StateJson(2)>>)

\* ------------------------------------------------------------------------
\* Environment
\* ------------------------------------------------------------------------
\* The source inserts a record; rec_ids are assigned in increasing order and
\* never reused.  The watcher reads the table only in its startup check and
\* in the query after a wait, so inserts are taken before the start and
\* during the waits.
Insert ==
    /\ pc \in {"load", "wait"}
    /\ nextId <= MaxRows
    /\ \E s \in 1..Len(RowSamples) : db' = db \cup {[rec_id |-> nextId, src |-> s]}
    /\ nextId' = nextId + 1
    /\ UNCHANGED <<progVars, stateFile, tmp, walExists, delPending, fdStale,
                   osOpen, histVars>>

\* SQLite checkpoints the WAL: the file is deleted or renamed, and later
\* created again.  The watcher looks at the file when it waits and in the two
\* os.path.exists calls after the pass.  An open fd keeps referring to the
\* file that was deleted; the kqueue reports the delete of that file once.
WalDelete ==
    /\ pc = "wait"
    /\ walExists
    /\ walExists' = FALSE
    /\ delPending' = (fd = "open" /\ ~fdStale)
    /\ fdStale' = (fd = "open")
    /\ UNCHANGED <<progVars, db, nextId, stateFile, tmp, osOpen, histVars>>

WalCreate ==
    /\ pc \in {"wait", "wal_elif"}
    /\ ~walExists
    /\ walExists' = TRUE
    /\ UNCHANGED <<progVars, db, nextId, stateFile, tmp, delPending, fdStale,
                   osOpen, histVars>>

\* SIGINT / SIGTERM, at any point of the loop: the handler clears the flag
\* and returns to the interrupted code (a blocking call that the signal
\* interrupted is resumed).
shutdown_handler ==
    /\ pc \in {"top", "wait", "query", "loop", "wal", "wal_elif",
               "save_create", "save_write", "save_flush", "save_fsync",
               "save_replace"}
    /\ running
    /\ running' = FALSE
    /\ UNCHANGED <<pc, config, dry_run, last_rec_id, notifications, idx,
                   conn, kq, fd, kev, wal_was_deleted, crashed, saveRet, tmp_bound,
                   envVars, histVars>>

\* The flag is read in the loop condition only, so a signal that arrives
\* during an iteration has the effect of one that arrives when the condition
\* is about to be evaluated: the runs of Spec take the signal there.
StopAtLoopCondition == pc = "top" /\ shutdown_handler

\* ------------------------------------------------------------------------
\* Groups of variables an action leaves alone
\* ------------------------------------------------------------------------
argVars    == <<config, dry_run, running>>
handleVars == <<conn, kq, fd, kev, osOpen>>
srcVars    == <<db, nextId>>
walVars    == <<walExists, delPending, fdStale>>
fileVars   == <<stateFile, tmp, tmp_bound>>
startHist  == <<loaded, purged>>
passHist   == <<passStart, queryFailed, skipped, passAttempts, payloads, passSteps>>
saveHist   == <<saveOld, saveRes, tmpLeft>>

\* ------------------------------------------------------------------------
\* Startup (run_watcher up to the loop)
\* ------------------------------------------------------------------------
\* last_rec_id = load_state(state_path); an exception here leaves
\* run_watcher before any handle exists.
LoadState ==
    /\ pc = "load"
    /\ LET r == load_state(stateFile)
       IN  IF r.raises
           THEN /\ pc' = "done"
                /\ crashed' = "load_state"
                /\ UNCHANGED <<last_rec_id, loaded>>
           ELSE /\ pc' = "check"
                /\ last_rec_id' = r.val
                /\ loaded' = r.val
                /\ UNCHANGED crashed
    /\ UNCHANGED <<argVars, handleVars, srcVars, walVars, fileVars, passHist,
                   saveHist, notifications, idx, wal_was_deleted, saveRet,
                   purged, attempted>>

\* conn = sqlite3.connect(...); last_rec_id = check_db_consistency(conn, ...)
\* Either call can raise sqlite3.OperationalError, which nothing catches.
CheckConsistency ==
    /\ pc = "check"
    /\ \/ /\ conn' = "open"
          /\ last_rec_id' = check_db_consistency(db, last_rec_id)
          /\ purged' = (last_rec_id > MaxRecId(db))
          /\ pc' = "setup"
          /\ UNCHANGED crashed
       \/ /\ conn' \in {"None", "open"}
          /\ crashed' = "check_db_consistency"
          /\ pc' = "done"
          /\ UNCHANGED <<last_rec_id, purged>>
    /\ UNCHANGED <<argVars, kq, fd, kev, osOpen, srcVars, walVars, fileVars,
                   passHist, saveHist, notifications, idx, wal_was_deleted,
                   saveRet, loaded, attempted>>

\* Variant: the descriptors of the old handles stay open.
Closed_leak(n) == n

\* The descriptors left open after os.close(fd) / kq.close() on the handles
\* that are not None.
Closed(n) == n - (IF fd # "None" THEN 1 ELSE 0) - (IF kq # "None" THEN 1 ELSE 0)

\* kq, fd, kev = create_wal_watcher(wal_path) with held descriptors already
\* open: the three handles and two new descriptors, or OSError (the caller
\* then has None for the three; a kqueue created before os.open failed is
\* closed when the exception is dropped).
create_wal_watcher(ok, held) ==
    IF ok THEN /\ kq' = "open"
               /\ fd' = "open"
               /\ kev' = "set"
               /\ osOpen' = held + 2
               /\ delPending' = FALSE
               /\ fdStale' = FALSE
          ELSE /\ kq' = "None"
               /\ fd' = "None"
               /\ kev' = "None"
               /\ osOpen' = held
               /\ delPending' = FALSE
               /\ fdStale' = FALSE

\* Set up kqueue if WAL exists.
SetupWatcher ==
    /\ pc = "setup"
    /\ IF walExists
       THEN \E ok \in BOOLEAN : create_wal_watcher(ok, osOpen)
       ELSE UNCHANGED <<kq, fd, kev, osOpen, delPending, fdStale>>
    /\ pc' = "top"
    /\ UNCHANGED <<argVars, conn, srcVars, walExists, fileVars, startHist,
                   passHist, saveHist, last_rec_id, notifications, idx,
                   wal_was_deleted, crashed, saveRet, attempted>>

\* ------------------------------------------------------------------------
\* The loop
\* ------------------------------------------------------------------------
\* Variant: every iteration starts with the consistency check.
LoopTop_recheck ==
    /\ pc = "top"
    /\ IF running
       THEN /\ pc' = "check"
            /\ wal_was_deleted' = FALSE
       ELSE /\ pc' = "flush"
            /\ UNCHANGED wal_was_deleted
    /\ loaded' = 0
    /\ passStart' = NoPass
    /\ queryFailed' = FALSE
    /\ skipped' = {}
    /\ passAttempts' = <<>>
    /\ payloads' = <<>>
    /\ passSteps' = <<>>
    /\ saveOld' = Absent
    /\ saveRes' = "none"
    /\ tmpLeft' = FALSE
    /\ notifications' = <<>>
    /\ idx' = 1
    /\ UNCHANGED <<argVars, handleVars, srcVars, walVars, fileVars,
                   last_rec_id, crashed, saveRet, purged, attempted>>

\* Variant: the loop condition does not read the flag.
LoopTop_ignore ==
    /\ pc = "top"
    /\ pc' = "wait"
    /\ wal_was_deleted' = FALSE
    /\ loaded' = 0
    /\ passStart' = NoPass
    /\ queryFailed' = FALSE
    /\ skipped' = {}
    /\ passAttempts' = <<>>
    /\ payloads' = <<>>
    /\ passSteps' = <<>>
    /\ saveOld' = Absent
    /\ saveRes' = "none"
    /\ tmpLeft' = FALSE
    /\ notifications' = <<>>
    /\ idx' = 1
    /\ UNCHANGED <<argVars, handleVars, srcVars, walVars, fileVars,
                   last_rec_id, crashed, saveRet, purged, attempted>>

\* while running: wal_was_deleted = False
\* notifications and the position of the for loop are assigned in every
\* iteration before they are read; the batch of the iteration that ended is
\* dropped here.
LoopTop ==
    /\ pc = "top"
    /\ IF running
       THEN /\ pc' = "wait"
            /\ wal_was_deleted' = FALSE
       ELSE /\ pc' = "flush"
            /\ UNCHANGED wal_was_deleted
    /\ loaded' = 0
    /\ passStart' = NoPass
    /\ queryFailed' = FALSE
    /\ skipped' = {}
    /\ passAttempts' = <<>>
    /\ payloads' = <<>>
    /\ passSteps' = <<>>
    /\ saveOld' = Absent
    /\ saveRes' = "none"
    /\ tmpLeft' = FALSE
    /\ notifications' = <<>>
    /\ idx' = 1
    /\ UNCHANGED <<argVars, handleVars, srcVars, walVars, fileVars,
                   last_rec_id, crashed, saveRet, purged, attempted>>

\* What kq.control can return: a write event, a timeout (no event), a
\* delete/rename event when one is queued, or OSError.
WaitOutcomes == {"write", "timeout", "oserror"}
                    \cup (IF delPending THEN {"delete"} ELSE {})

\* kq.control([kev], 1, poll_interval) when a watch is registered,
\* time.sleep(poll_interval) otherwise.
Wait ==
    /\ pc = "wait"
    /\ IF kq # "None" /\ kev # "None"
       THEN \E w \in WaitOutcomes :
               /\ wal_was_deleted' = (w \in {"delete", "oserror"})
               /\ delPending' = IF w = "delete" THEN FALSE ELSE delPending
       ELSE UNCHANGED <<wal_was_deleted, delPending>>
    /\ pc' = "query"
    /\ passSteps' = Append(passSteps, "wake")
    /\ UNCHANGED <<argVars, handleVars, srcVars, walExists, fdStale, fileVars,
                   startHist, passStart, queryFailed, skipped, passAttempts,
                   payloads, saveHist, last_rec_id, notifications, idx, crashed,
                   saveRet, attempted>>

\* ------------------------------------------------------------------------
\* Record Reader (query_new_notifications)
\* ------------------------------------------------------------------------
\* ORDER BY r.rec_id ASC
RECURSIVE SortAsc(_)
SortAsc(rows) ==
    IF rows = {} THEN <<>>
    ELSE LET first == CHOOSE r \in rows : \A q \in rows : r.rec_id <= q.rec_id
         IN  <<first>> \o SortAsc(rows \ {first})

\* Variant: WHERE r.rec_id >= ?
SelectRows_ge(rows, last) == SortAsc({r \in rows : r.rec_id >= last})

\* WHERE r.rec_id > ? ORDER BY r.rec_id ASC
SelectRows(rows, last) == SortAsc({r \in rows : r.rec_id > last})

\* The body of the for loop over the first k rows of the cursor:
\* [st |-> "ok" or "raise", results |-> the list so far,
\*  skipped |-> rec_ids whose blob parse_notification gave None for].
RECURSIVE ScanRows(_, _)
ScanRows(F, k) ==
    IF k = 0 THEN [st |-> "ok", results |-> <<>>, skipped |-> {}]
    ELSE LET prev == ScanRows(F, k - 1)
             row  == F[k]
             p    == parse_notification(RowSamples[row.src].data)
         IN  IF prev.st = "raise" THEN prev
             ELSE IF p.st = "raise" THEN [prev EXCEPT !.st = "raise"]
             ELSE IF p.st = "none"
                  THEN [prev EXCEPT !.skipped = @ \cup {row.rec_id}]
             ELSE [prev EXCEPT !.results =
                      Append(@, [rec_id    |-> row.rec_id,
                                 app       |-> RowSamples[row.src].identifier,
                                 title     |-> p.notif.title,
                                 subtitle  |-> p.notif.subtitle,
                                 body      |-> p.notif.body,
                                 timestamp |-> p.notif.timestamp])]

\* query_new_notifications(conn, last_rec_id) when the cursor delivers k
\* rows; k smaller than the number of selected rows means
\* sqlite3.OperationalError ended the iteration there (k = 0: in execute).
query_new_notifications(rows, last, k) == ScanRows(SelectRows(rows, last), k)

\* notifications = query_new_notifications(conn, last_rec_id)
Query ==
    /\ pc = "query"
    /\ \E failed \in BOOLEAN, k \in 0..Cardinality(db) :
          /\ k <= Len(SelectRows(db, last_rec_id))
          /\ failed <=> (k < Len(SelectRows(db, last_rec_id)) \/ (failed /\ k = 0))
          /\ LET r == query_new_notifications(db, last_rec_id, k)
             IN  IF r.st = "raise"
                 THEN /\ pc' = "finally"
                      /\ crashed' = "parse_notification"
                      /\ UNCHANGED <<notifications, idx, skipped, queryFailed>>
                 ELSE /\ pc' = "loop"
                      /\ notifications' = r.results
                      /\ idx' = 1
                      /\ skipped' = r.skipped
                      /\ queryFailed' = failed
                      /\ UNCHANGED crashed
    /\ passStart' = [cur |-> last_rec_id, file |-> stateFile]
    /\ passSteps' = Append(passSteps, "read")
    /\ UNCHANGED <<argVars, handleVars, srcVars, walVars, fileVars, startHist,
                   saveHist, last_rec_id, wal_was_deleted, saveRet, attempted,
                   passAttempts, payloads>>

\* ------------------------------------------------------------------------
\* Filter / deliver one notification (body of the for loop)
\* ------------------------------------------------------------------------
\* post_webhook: what a call can end with: True, False, or an exception
\* raised before the try block (urllib.request.Request rejects the URL).
post_webhook(payload, webhook_url) ==
    IF webhook_url = "noscheme" THEN {"raise"} ELSE {"True", "False"}

Bump(n) == IF n >= 2 THEN 2 ELSE n + 1

\* Variant: the filter verdict is ignored.
Filtered_never(notif, cfg) == FALSE

\* if config is not None and not passes_filter(notif, config): continue
Filtered(notif, cfg) == cfg.present /\ ~passes_filter(notif, cfg)

\* if config is not None and config.get("webhook_url"): classify, build the
\* payload
Builds(cfg) == cfg.present /\ cfg.webhook_url # ""

\* Variant: dry_run is not consulted.
Posts_always(cfg, dry) == cfg.present /\ cfg.webhook_url # ""

\* if config is not None and config.get("webhook_url"): ... if dry_run: log
\* else: post_webhook(...)
Posts(cfg, dry) == cfg.present /\ cfg.webhook_url # "" /\ ~dry

ProcessNotification ==
    /\ pc = "loop"
    /\ idx <= Len(notifications)
    /\ LET notif   == notifications[idx]
           payload == build_webhook_payload(notif, classify_notification(notif))
       IN  IF config.present /\ filter_raises(notif, config)
           THEN /\ pc' = "finally"
                /\ crashed' = "passes_filter"
                /\ UNCHANGED <<idx, attempted, passAttempts, payloads>>
           ELSE IF Filtered(notif, config)
           THEN /\ idx' = idx + 1
                /\ UNCHANGED <<pc, crashed, attempted, passAttempts, payloads>>
           ELSE IF Builds(config) /\ classify_raises(notif)
           THEN /\ pc' = "finally"
                /\ crashed' = "classify_notification"
                /\ UNCHANGED <<idx, attempted, passAttempts, payloads>>
           ELSE IF Posts(config, dry_run)
           THEN \E res \in post_webhook(payload, config.webhook_url) :
                   /\ payloads' = Append(payloads, payload)
                   /\ attempted' = [attempted EXCEPT ![notif.rec_id] = Bump(@)]
                   /\ passAttempts' = Append(passAttempts,
                                          [rec_id |-> notif.rec_id, res |-> res])
                   /\ IF res = "raise"
                      THEN /\ pc' = "finally"
                           /\ crashed' = "post_webhook"
                           /\ UNCHANGED idx
                      ELSE /\ idx' = idx + 1
                           /\ UNCHANGED <<pc, crashed>>
           ELSE /\ idx' = idx + 1
                /\ payloads' = IF Builds(config) THEN Append(payloads, payload)
                                ELSE payloads
                /\ UNCHANGED <<pc, crashed, attempted, passAttempts>>
    /\ passSteps' = Append(passSteps, "event")
    /\ UNCHANGED <<argVars, handleVars, srcVars, walVars, fileVars, startHist,
                   saveHist, last_rec_id, notifications, wal_was_deleted,
                   saveRet, passStart, queryFailed, skipped>>

\* Variant: the high-water mark is taken from the first event.
HighWaterMark_first(batch) == batch[1].rec_id

\* The rec_id the high-water mark is taken from.
HighWaterMark(batch) == batch[Len(batch)].rec_id

\* Variant: save_state is called after every pass.
UpdateHighWaterMark_always ==
    /\ pc = "loop"
    /\ idx > Len(notifications)
    /\ last_rec_id' = IF notifications # <<>> THEN HighWaterMark(notifications)
                      ELSE last_rec_id
    /\ pc' = "save_create"
    /\ saveRet' = "pass"
    /\ saveOld' = stateFile
    /\ passSteps' = Append(passSteps, "save")
    /\ UNCHANGED <<argVars, handleVars, srcVars, walVars, fileVars, startHist,
                   passStart, queryFailed, skipped, passAttempts, payloads,
                   saveRes, tmpLeft, notifications, idx, wal_was_deleted,
                   crashed, attempted>>

\* After the for loop:
\* if notifications: last_rec_id = notifications[-1]["rec_id"]; save_state(...)
UpdateHighWaterMark ==
    /\ pc = "loop"
    /\ idx > Len(notifications)
    /\ IF notifications # <<>>
       THEN /\ last_rec_id' = HighWaterMark(notifications)
            /\ pc' = "save_create"
            /\ saveRet' = "pass"
            /\ saveOld' = stateFile
            /\ passSteps' = Append(passSteps, "save")
       ELSE /\ pc' = "wal"
            /\ UNCHANGED <<last_rec_id, saveRet, saveOld, passSteps>>
    /\ UNCHANGED <<argVars, handleVars, srcVars, walVars, fileVars, startHist,
                   passStart, queryFailed, skipped, passAttempts, payloads,
                   saveRes, tmpLeft, notifications, idx, wal_was_deleted,
                   crashed, attempted>>

\* ------------------------------------------------------------------------
\* Cursor Store (save_state), one step per I/O call
\* ------------------------------------------------------------------------
SavePcs == {"save_create", "save_write", "save_flush", "save_fsync", "save_replace"}

\* save_state returns to its caller.
SaveReturn(res) ==
    /\ pc' = IF saveRet = "pass" THEN "wal" ELSE "finally"
    /\ saveRes' = res
    /\ tmp_bound' = FALSE

\* except OSError: try os.unlink(tmp_path) except (OSError, UnboundLocalError)
\* The unlink removes the temp file only when tmp_path was assigned; the
\* temp file of this save otherwise stays in the directory.
SaveExcept ==
    /\ tmpLeft' = (~tmp_bound /\ tmp # Absent)
    /\ tmp' = Absent
    /\ SaveReturn("failed")
    /\ UNCHANGED stateFile

\* tempfile.NamedTemporaryFile(mode="w", dir=dir_name, delete=False)
SaveCreate ==
    /\ pc = "save_create"
    /\ \/ /\ tmp' = BadJson
          /\ pc' = "save_write"
          /\ UNCHANGED <<stateFile, tmp_bound, tmpLeft, saveRes>>
       \/ SaveExcept
    /\ UNCHANGED <<argVars, handleVars, srcVars, walVars, startHist, passHist,
                   saveOld, last_rec_id, notifications, idx, wal_was_deleted,
                   crashed, saveRet, attempted>>

\* Variant: the document is written over the cursor file itself.
SaveWrite_inplace ==
    /\ pc = "save_write"
    /\ stateFile' = BadJson
    /\ pc' = "save_flush"
    /\ UNCHANGED <<tmp, tmp_bound, tmpLeft, saveRes>>
    /\ UNCHANGED <<argVars, handleVars, srcVars, walVars, startHist, passHist,
                   saveOld, last_rec_id, notifications, idx, wal_was_deleted,
                   crashed, saveRet, attempted>>

\* json.dump(state, tmp): the text is in the buffer, the file on disk holds
\* nothing yet or a part of it.
SaveWrite ==
    /\ pc = "save_write"
    /\ \/ /\ pc' = "save_flush"
          /\ UNCHANGED <<stateFile, tmp, tmp_bound, tmpLeft, saveRes>>
       \/ SaveExcept
    /\ UNCHANGED <<argVars, handleVars, srcVars, walVars, startHist, passHist,
                   saveOld, last_rec_id, notifications, idx, wal_was_deleted,
                   crashed, saveRet, attempted>>

\* Variant: the document holds the cursor the pass started from.
SaveFlush_stale ==
    /\ pc = "save_flush"
    /\ \/ /\ tmp' = StateJson(passStart.cur)
          /\ pc' = "save_fsync"
          /\ UNCHANGED <<stateFile, tmp_bound, tmpLeft, saveRes>>
       \/ SaveExcept
    /\ UNCHANGED <<argVars, handleVars, srcVars, walVars, startHist, passHist,
                   saveOld, last_rec_id, notifications, idx, wal_was_deleted,
                   crashed, saveRet, attempted>>

\* tmp.flush(): the whole document is in the temp file.
SaveFlush ==
    /\ pc = "save_flush"
    /\ \/ /\ tmp' = StateJson(last_rec_id)
          /\ pc' = "save_fsync"
          /\ UNCHANGED <<stateFile, tmp_bound, tmpLeft, saveRes>>
       \/ SaveExcept
    /\ UNCHANGED <<argVars, handleVars, srcVars, walVars, startHist, passHist,
                   saveOld, last_rec_id, notifications, idx, wal_was_deleted,
                   crashed, saveRet, attempted>>

\* os.fsync(tmp.fileno()); tmp_path = tmp.name
SaveFsync ==
    /\ pc = "save_fsync"
    /\ \/ /\ tmp_bound' = TRUE
          /\ pc' = "save_replace"
          /\ UNCHANGED <<stateFile, tmp, tmpLeft, saveRes>>
       \/ SaveExcept
    /\ UNCHANGED <<argVars, handleVars, srcVars, walVars, startHist, passHist,
                   saveOld, last_rec_id, notifications, idx, wal_was_deleted,
                   crashed, saveRet, attempted>>

\* leaving the with block (close), then os.replace(tmp_path, state_path)
SaveReplace ==
    /\ pc = "save_replace"
    /\ \/ /\ stateFile' = tmp
          /\ tmp' = Absent
          /\ SaveReturn("ok")
          /\ UNCHANGED tmpLeft
       \/ SaveExcept
    /\ UNCHANGED <<argVars, handleVars, srcVars, walVars, startHist, passHist,
                   saveOld, last_rec_id, notifications, idx, wal_was_deleted,
                   crashed, saveRet, attempted>>

\* The process is killed (or the machine stops) in the middle of a save.
Kill ==
    /\ pc \in SavePcs
    /\ pc' = "dead"
    /\ UNCHANGED <<argVars, handleVars, srcVars, walVars, fileVars, startHist,
                   passHist, saveHist, last_rec_id, notifications, idx,
                   wal_was_deleted, crashed, saveRet, attempted>>

\* ------------------------------------------------------------------------
\* WAL delete/rename handling, shutdown
\* ------------------------------------------------------------------------
\* if wal_was_deleted and os.path.exists(wal_path): close fd and kq,
\* re-register.
HandleWalReregister ==
    /\ pc = "wal"
    /\ IF wal_was_deleted /\ walExists
       THEN /\ \E ok \in BOOLEAN : create_wal_watcher(ok, Closed(osOpen))
            /\ pc' = "top"
       ELSE /\ pc' = "wal_elif"
            /\ UNCHANGED <<kq, fd, kev, osOpen, delPending, fdStale>>
    /\ UNCHANGED <<argVars, conn, srcVars, walExists, fileVars, startHist,
                   passHist, saveHist, last_rec_id, notifications, idx,
                   wal_was_deleted, crashed, saveRet, attempted>>

\* Variant: the iteration reads again instead of returning to the top of
\* the loop.
HandleWalFallback_again ==
    /\ pc = "wal_elif"
    /\ pc' = "query"
    /\ UNCHANGED <<argVars, handleVars, srcVars, walVars, fileVars, startHist,
                   passHist, saveHist, last_rec_id, notifications, idx,
                   wal_was_deleted, crashed, saveRet, attempted>>

\* elif wal_was_deleted and not os.path.exists(wal_path): close fd and kq,
\* fall back to polling.
HandleWalFallback ==
    /\ pc = "wal_elif"
    /\ IF wal_was_deleted /\ ~walExists
       THEN /\ osOpen' = Closed(osOpen)
            /\ kq' = "None"
            /\ fd' = "None"
            /\ kev' = "None"
            /\ delPending' = FALSE
            /\ fdStale' = FALSE
       ELSE UNCHANGED <<kq, fd, kev, osOpen, delPending, fdStale>>
    /\ pc' = "top"
    /\ UNCHANGED <<argVars, conn, srcVars, walExists, fileVars, startHist,
                   passHist, saveHist, last_rec_id, notifications, idx,
                   wal_was_deleted, crashed, saveRet, attempted>>

\* Variant: the loop is left without the final save.
Flush_skip ==
    /\ pc = "flush"
    /\ pc' = "finally"
    /\ UNCHANGED <<argVars, handleVars, srcVars, walVars, fileVars, startHist,
                   passHist, saveHist, last_rec_id, notifications, idx,
                   wal_was_deleted, crashed, saveRet, attempted>>

\* Graceful shutdown: save_state(last_rec_id, state_path)
Flush ==
    /\ pc = "flush"
    /\ pc' = "save_create"
    /\ saveRet' = "shutdown"
    /\ saveOld' = stateFile
    /\ UNCHANGED <<argVars, handleVars, srcVars, walVars, fileVars, startHist,
                   passHist, saveRes, tmpLeft, last_rec_id, notifications, idx, wal_was_deleted,
                   crashed, attempted>>

\* Variant: the handle is left as it is.
Close_keep(h) == h

\* os.close(fd) / kq.close() of a handle that is not None
Close(h) == IF h = "None" THEN "None" ELSE "closed"

\* finally: close fd, kq, conn
Cleanup ==
    /\ pc = "finally"
    /\ fd' = Close(fd)
    /\ kq' = Close(kq)
    /\ osOpen' = Closed(osOpen)
    /\ conn' = "closed"
    /\ pc' = "done"
    /\ UNCHANGED <<argVars, kev, srcVars, walVars, fileVars, startHist, passHist,
                   saveHist, last_rec_id, notifications, idx, wal_was_deleted,
                   crashed, saveRet, attempted>>

\* ------------------------------------------------------------------------
\* Specification
\* ------------------------------------------------------------------------
Next ==
    \/ Insert
    \/ WalDelete
    \/ WalCreate
    \/ StopAtLoopCondition
    \/ LoadState
    \/ CheckConsistency
    \/ SetupWatcher
    \/ LoopTop
    \/ Wait
    \/ Query
    \/ ProcessNotification
    \/ UpdateHighWaterMark
    \/ SaveCreate
    \/ SaveWrite
    \/ SaveFlush
    \/ SaveFsync
    \/ SaveReplace
    \/ Kill
    \/ HandleWalReregister
    \/ HandleWalFallback
    \/ Flush
    \/ Cleanup

Spec == Init /\ [][Next]_vars

\* ------------------------------------------------------------------------
\* The startup of a run over every kind of cursor file: load_state and
\* check_db_consistency applied to a file and a record table drawn from
\* bounded sets.
\* ------------------------------------------------------------------------
InitStartup == InitWith(OtherFiles \o [n \in 1..(MaxRows + 2) |-> StateJson(n - 1)])

NextStartup ==
    \/ Insert
    \/ LoadState
    \/ CheckConsistency

SpecStartup == InitStartup /\ [][NextStartup]_vars

\* ------------------------------------------------------------------------
\* A run that is scheduled: the process keeps executing, every wait returns
\* within the poll interval and every call returns, so a step of run_watcher
\* that is possible is eventually taken, and the process is not killed.
\* Nothing is assumed of the rest of the environment (inserts, WAL deletion
\* and creation, signals), and the signal arrives at any point of an
\* iteration.
\* ------------------------------------------------------------------------
Step ==
    \/ LoadState
    \/ CheckConsistency
    \/ SetupWatcher
    \/ LoopTop
    \/ Wait
    \/ Query
    \/ ProcessNotification
    \/ UpdateHighWaterMark
    \/ SaveCreate
    \/ SaveWrite
    \/ SaveFlush
    \/ SaveFsync
    \/ SaveReplace
    \/ HandleWalReregister
    \/ HandleWalFallback
    \/ Flush
    \/ Cleanup

\* A run with a usable destination URL that starts without a cursor file
\* and with the WAL file in place.
InitLive ==
    /\ InitWith(<<Absent>>)
    /\ config.webhook_url = "http"
    /\ ~dry_run
    /\ walExists

\* An insert of the source in a run checked under fairness.
InsertLive == nextId <= MaxLiveRows /\ Insert

NextLive ==
    \/ Step
    \/ InsertLive
    \/ WalDelete
    \/ WalCreate
    \/ shutdown_handler

SpecLive == InitLive /\ [][NextLive]_vars /\ WF_vars(Step)

\* ------------------------------------------------------------------------
\* The filter chain applied to one event: the for loop of run_watcher over a
\* batch of one event whose source, title and body are drawn from the
\* samples below, under the default bundle ids or a configured set.
\* ------------------------------------------------------------------------
FilterApps == <<"com.microsoft.teams2", "com.microsoft.teams", "com.apple.mail">>

FilterTitles ==
    << <<>>, <<" ">>, T_Al, <<" ","A","l","\n">>, SYSTEM_ALERT_TITLE,
       <<" ">> \o SYSTEM_ALERT_TITLE \o <<" ">>,
       SYSTEM_ALERT_TITLE \o <<"!">>,
       <<"m","i","c","r","o","s","o","f","t"," ","t","e","a","m","s">> >>

FilterBodies ==
    << <<>>, <<" ","\t">>, T_hi, T_Liked, <<" ">> \o T_Liked \o <<" ","i","t">>,
       <<"l","i","k","e","d">>, <<"u","n">> \o T_Liked,
       <<"i","s"," ","t","y","p","i","n","g">>,
       <<"A","l"," ","i","s"," ","t","y","p","i","n","g">>,
       <<"L","i","k","e">> >>

FilterBundleIds == <<DEFAULT_BUNDLE_IDS, {"com.apple.mail"}>>

FilterEvent(a, t, b) ==
    [rec_id |-> 1, app |-> FilterApps[a], title |-> Str(FilterTitles[t]),
     subtitle |-> Str(<<>>), body |-> Str(FilterBodies[b]),
     timestamp |-> 10 + COCOA_TO_UNIX_OFFSET]

InitFilter ==
    /\ pc = "loop"
    /\ \E c \in 1..Len(FilterBundleIds) :
          config = [present |-> TRUE, webhook_url |-> "http",
                    bundle_ids |-> FilterBundleIds[c]]
    /\ dry_run = FALSE
    /\ running \in BOOLEAN
    /\ db = {}
    /\ nextId = 1
    /\ stateFile = Absent
    /\ tmp = Absent
    /\ tmp_bound = FALSE
    /\ tmpLeft = FALSE
    /\ saveRet = "none"
    /\ last_rec_id = 0
    /\ \E a \in 1..Len(FilterApps), t \in 1..Len(FilterTitles),
          b \in 1..Len(FilterBodies) : notifications = <<FilterEvent(a, t, b)>>
    /\ idx = 1
    /\ conn = "open"
    /\ kq = "None"
    /\ fd = "None"
    /\ kev = "None"
    /\ osOpen = 0
    /\ walExists \in BOOLEAN
    /\ delPending = FALSE
    /\ fdStale = FALSE
    /\ wal_was_deleted = FALSE
    /\ crashed = "no"
    /\ loaded = 0
    /\ purged = FALSE
    /\ attempted = [i \in 1..MaxRows |-> 0]
    /\ passStart = NoPass
    /\ queryFailed = FALSE
    /\ skipped = {}
    /\ passAttempts = <<>>
    /\ payloads = <<>>
    /\ passSteps = <<"wake", "read">>
    /\ saveOld = Absent
    /\ saveRes = "none"

NextFilter == ProcessNotification

SpecFilter == InitFilter /\ [][NextFilter]_vars

\* ------------------------------------------------------------------------
\* Classification and payload of one event: the for loop of run_watcher over
\* a batch of one event from the default source whose title, subtitle and
\* body are drawn from the samples below, delivered or logged (--dry-run).
\* ------------------------------------------------------------------------
T_Alice == <<"A","l","i","c","e">>

\* n times the character c
Repeat(c, n) == [i \in 1..n |-> c]

PayloadTitles == << T_Alice, <<" ">> \o T_Alice \o <<"\n">>, <<"B","o","b">> >>

PayloadSubtitles ==
    << <<>>, <<" ">>, T_Alice, <<" ">> \o T_Alice \o <<" ">>,
       <<"G","e","n","e","r","a","l">>,
       <<"G","e","n","e","r","a","l"," ","|"," ","T","e","a","m"," ","X">>,
       <<"a"," ",">"," ","b">>, <<" ","|"," ">> >>

PayloadBodies ==
    << T_hi,
       <<"s","e","e"," ","y","o","u"," ","@","3","p","m">>,
       <<"@">>,
       <<"o","k","?">>,
       Repeat("a", 149),
       Repeat("a", 150),
       Repeat("a", 151),
       Repeat("a", 148) \o <<".">>,
       Repeat("a", 149) \o <<".">>,
       Repeat("a", 149) \o <<"!">>,
       Repeat("a", 149) \o <<"\"">>,
       Repeat("a", 149) \o <<"'">>,
       Repeat("a", 149) \o <<")">>,
       Repeat("a", 149) \o <<",">>,
       Repeat("a", 149) \o <<" ">>,
       Repeat("a", 148) \o <<"?", "a">>,
       Repeat("a", 299) \o <<"?">>,
       Repeat("a", 299) \o <<"@">>,
       T_Liked \o <<" ","@","A","l">> >>

PayloadEvent(t, s, b) ==
    [rec_id |-> 1, app |-> "com.microsoft.teams2", title |-> Str(PayloadTitles[t]),
     subtitle |-> Str(PayloadSubtitles[s]), body |-> Str(PayloadBodies[b]),
     timestamp |-> 10 + COCOA_TO_UNIX_OFFSET]

InitPayload ==
    /\ pc = "loop"
    /\ config = [present |-> TRUE, webhook_url |-> "http",
                 bundle_ids |-> DEFAULT_BUNDLE_IDS]
    /\ dry_run \in BOOLEAN
    /\ running = TRUE
    /\ db = {}
    /\ nextId = 1
    /\ stateFile = Absent
    /\ tmp = Absent
    /\ tmp_bound = FALSE
    /\ tmpLeft = FALSE
    /\ saveRet = "none"
    /\ last_rec_id = 0
    /\ \E t \in 1..Len(PayloadTitles), s \in 1..Len(PayloadSubtitles),
          b \in 1..Len(PayloadBodies) : notifications = <<PayloadEvent(t, s, b)>>
    /\ idx = 1
    /\ conn = "open"
    /\ kq = "None"
    /\ fd = "None"
    /\ kev = "None"
    /\ osOpen = 0
    /\ walExists = FALSE
    /\ delPending = FALSE
    /\ fdStale = FALSE
    /\ wal_was_deleted = FALSE
    /\ crashed = "no"
    /\ loaded = 0
    /\ purged = FALSE
    /\ attempted = [i \in 1..MaxRows |-> 0]
    /\ passStart = NoPass
    /\ queryFailed = FALSE
    /\ skipped = {}
    /\ passAttempts = <<>>
    /\ payloads = <<>>
    /\ passSteps = <<"wake", "read">>
    /\ saveOld = Absent
    /\ saveRes = "none"

NextPayload == ProcessNotification

SpecPayload == InitPayload /\ [][NextPayload]_vars

\* ========================================================================
\* Properties
\* ========================================================================
Ids(seq) == [i \in 1..Len(seq) |-> seq[i].rec_id]

Ascending(ids) == \A i \in 1..Len(ids) : \A j \in 1..Len(ids) : i < j => ids[i] < ids[j]

BatchMax(batch) ==
    CHOOSE m \in {batch[i].rec_id : i \in 1..Len(batch)} :
        \A i \in 1..Len(batch) : batch[i].rec_id <= m

\* The value a reader of the cursor file gets.
FileValue(file) == load_state(file).val

Loads(file, n) == load_state(file) = [raises |-> FALSE, val |-> n]

\* The pass of the current iteration (query, loop, high-water mark and save)
\* is complete.
PassDone == pc = "wal"

\* The records of the table above cur that decode and pass the four filter
\* stages, as rec_ids in ascending order.
RowAdmitted(row) ==
    LET p == parse_notification(RowSamples[row.src].data)
    IN  /\ p.st = "ok"
        /\ passes_filter([app   |-> RowSamples[row.src].identifier,
                          title |-> p.notif.title,
                          body  |-> p.notif.body], config)

AdmittedIds(cur) == Ids(SortAsc({r \in db : r.rec_id > cur /\ RowAdmitted(r)}))

\* The events of a batch that pass the filter, as rec_ids in batch order.
RECURSIVE AdmittedOf(_)
AdmittedOf(batch) ==
    IF batch = <<>> THEN <<>>
    ELSE IF passes_filter(Head(batch), config)
         THEN <<Head(batch).rec_id>> \o AdmittedOf(Tail(batch))
         ELSE AdmittedOf(Tail(batch))

IsPrefix(a, b) == Len(a) <= Len(b) /\ SubSeq(b, 1, Len(a)) = a

\* C1: after every pass whose read returned at least one event, the
\* in-memory cursor equals the largest rec_id of the returned events, and so
\* does the cursor file when the save succeeded, whatever the filter decided
\* and whatever the deliveries returned.
C1_CursorIsBatchMax ==
    (PassDone /\ notifications # <<>>) =>
        /\ last_rec_id = BatchMax(notifications)
        /\ saveRes = "ok" => Loads(stateFile, BatchMax(notifications))

\* A pass over two events, one rejected by the filter and one whose delivery
\* failed, after which cursor and cursor file are at the second event.
C1_Witness ==
    /\ PassDone
    /\ Len(notifications) = 2
    /\ Len(passAttempts) = 1
    /\ passAttempts[1].res = "False"
    /\ saveRes = "ok"
    /\ last_rec_id = 2

\* C2: a record whose blob fails to decode still consumes a cursor slot:
\* after the pass that read it the cursor is at or above its rec_id.
C2_SkippedConsumeSlot ==
    PassDone => \A r \in skipped : last_rec_id >= r

C4_QueryFailureIsEmptyPass ==
    queryFailed =>
        /\ notifications = <<>>
        /\ passAttempts = <<>>
        /\ last_rec_id = passStart.cur
        /\ stateFile = passStart.file

\* C5: within one run each record is handed to post_webhook at most once,
\* whatever the call returned.
C5_AtMostOnce ==
    /\ \A i \in 1..MaxRows : attempted[i] <= 1
    /\ \A i \in 1..Len(passAttempts) : \A j \in 1..Len(passAttempts) :
           i # j => passAttempts[i].rec_id # passAttempts[j].rec_id

\* Record 1 was attempted in an earlier pass; the pass just completed read
\* from cursor 1 on and attempted only a later record.
C5_Witness ==
    /\ PassDone
    /\ attempted[1] = 1
    /\ passStart.cur >= 1
    /\ Len(passAttempts) = 1
    /\ passAttempts[1].rec_id > 1

\* C6: with a destination URL and without dry-run, the deliveries attempted
\* in a pass are, in ascending rec_id order and once each, exactly the
\* records of the read that decode and pass the filter (at every moment of
\* the pass: the first of them, in that order); the cursor file then holds
\* the largest rec_id of the batch when the save succeeded.
C6_DeliveryPerAdmittedRecord ==
    (config.webhook_url # "" /\ ~dry_run) =>
        /\ Ascending(Ids(passAttempts))
        /\ IsPrefix(Ids(passAttempts), AdmittedOf(notifications))
        /\ PassDone => Ids(passAttempts) = AdmittedOf(notifications)
        /\ (PassDone /\ ~queryFailed) => Ids(passAttempts) = AdmittedIds(passStart.cur)
        /\ (PassDone /\ notifications # <<>> /\ saveRes = "ok") =>
               stateFile = StateJson(BatchMax(notifications))

\* Cursor 0, records 1 and 3 admitted, record 2 undecodable: two attempts,
\* 1 then 3, both failed, and the cursor file holds 3.
C6_Witness ==
    /\ PassDone
    /\ passStart.cur = 0
    /\ skipped = {2}
    /\ passAttempts = <<[rec_id |-> 1, res |-> "False"], [rec_id |-> 3, res |-> "False"]>>
    /\ stateFile = StateJson(3)

\* C7: during a save of N, after it, and after a kill in the middle of it, the
\* cursor file is the file from before the save or the complete document for
\* N, so load returns the old value or N; after a save that completed load
\* returns N; load of a file that was never written returns 0.
C7_AtomicReplace ==
    /\ (pc \in SavePcs \cup {"dead"} \/ saveRes # "none") =>
           /\ stateFile \in {saveOld, StateJson(last_rec_id)}
           /\ \/ load_state(stateFile) = load_state(saveOld)
              \/ Loads(stateFile, last_rec_id)
    /\ saveRes = "ok" => Loads(stateFile, last_rec_id)
    /\ Loads(Absent, 0)

\* The process was killed while the temp file of save(2) was incomplete; the
\* cursor file still holds 1.
C7_Witness ==
    /\ pc = "dead"
    /\ tmp = BadJson
    /\ last_rec_id = 2
    /\ stateFile = StateJson(1)

\* A cursor file is a JSON object whose last_rec_id field is an integer.
IsIntegerObject(file) ==
    /\ file.k = "json"
    /\ file.v.t = "dict"
    /\ "last_rec_id" \in DOMAIN file.v.v
    /\ file.v.v["last_rec_id"].t = "num"

\* C8: load never raises, and returns 0 for every file that is not an object
\* with an integer field.
C8_LoadNeverRaises ==
    /\ crashed # "load_state"
    /\ (pc = "check" /\ ~IsIntegerObject(stateFile)) => last_rec_id = 0

\* C9: a save that fails after its temp file was created leaves no temp file
\* behind when it returns.
C9_TempRemovedOnError ==
    saveRes = "failed" => (~tmpLeft /\ tmp = Absent)

\* C10 as stated: checkConsistency returns 0 iff P > M and otherwise
\* returns P.
C10_ZeroIffPurged ==
    pc = "setup" =>
        /\ (last_rec_id = 0) <=> (loaded > MaxRecId(db))
        /\ ~(loaded > MaxRecId(db)) => last_rec_id = loaded

\* C10 as amended: checkConsistency returns 0 when P > M and P otherwise, so
\* that it returns 0 iff P > M or P = 0.
C10_PurgeDetection ==
    pc = "setup" =>
        /\ last_rec_id = (IF loaded > MaxRecId(db) THEN 0 ELSE loaded)
        /\ (last_rec_id = 0) <=> (loaded > MaxRecId(db) \/ loaded = 0)

\* A cursor above the maximum of a non-empty table was reset to 0.
C10_Witness ==
    /\ pc = "setup"
    /\ MaxRecId(db) > 0
    /\ loaded > MaxRecId(db)
    /\ last_rec_id = 0

\* The watcher left the loop: it is flushing, releasing, or has returned.
LoopLeft == pc \in {"flush", "finally", "done"} \/ (pc \in SavePcs /\ saveRet = "shutdown")

\* C11: a watcher waiting in POLL_FALLBACK (no watch registered) while the WAL
\* file exists eventually holds a registered watch again, unless the file
\* disappears again or the loop is left first.
C11_PollRecovers ==
    (pc = "wait" /\ kq = "None" /\ walExists) ~>
        (kq = "open" \/ ~walExists \/ LoopLeft)

\* NATIVE_WATCH with handles created for the file that is the WAL now, and
\* POLL_FALLBACK with no handle; in both, no other descriptor is left open.
NativeFresh == kq = "open" /\ fd = "open" /\ kev = "set" /\ ~fdStale /\ osOpen = 2

PollNoHandle == kq = "None" /\ fd = "None" /\ kev = "None" /\ osOpen = 0

\* C12: an iteration whose wake reported delete/rename or whose wait errored
\* ends with the old handles closed and either freshly created handles or no
\* handle at all; it does not end still holding the old handle.
C12_TearDownAndRebuild ==
    (pc = "top" /\ wal_was_deleted) => (NativeFresh \/ PollNoHandle)

\* C13: a watcher that left the loop on the stop signal has run the final
\* save before it releases its handles and returns, and when that save
\* succeeded the cursor file holds the in-memory cursor.
C13_ShutdownFlush ==
    (pc \in {"finally", "done"} /\ crashed = "no") =>
        /\ saveRet = "shutdown"
        /\ saveRes \in {"ok", "failed"}
        /\ saveRes = "ok" => stateFile = StateJson(last_rec_id)

\* The watcher returned after a final save that brought the cursor file up
\* to a cursor a pass had reached but whose per-batch save had failed.
C13_Witness ==
    /\ pc = "done"
    /\ crashed = "no"
    /\ saveRes = "ok"
    /\ last_rec_id > 0
    /\ last_rec_id > FileValue(saveOld)
    /\ stateFile = StateJson(last_rec_id)

\* The watcher returned after its loop had started (an exception of
\* load_state or of the startup check leaves run_watcher before the loop).
ReturnedFromLoop == pc = "done" /\ crashed \notin {"load_state", "check_db_consistency"}

\* C14: when the watcher returns after its loop ended (stop signal with a
\* successful or a failed flush, or an exception out of a pass), the kqueue,
\* the WAL file descriptor and the database connection are closed and no
\* descriptor of the watch is left open, from NATIVE_WATCH and from
\* POLL_FALLBACK alike.
C14_HandlesReleased ==
    ReturnedFromLoop =>
        /\ fd \in {"None", "closed"}
        /\ kq \in {"None", "closed"}
        /\ conn = "closed"
        /\ osOpen = 0

\* The watcher returned from NATIVE_WATCH after a failed final save, with
\* the three handles closed.
C14_Witness ==
    /\ ReturnedFromLoop
    /\ crashed = "no"
    /\ saveRes = "failed"
    /\ fd = "closed"
    /\ kq = "closed"
    /\ conn = "closed"

\* C15: the signal handler only clears the flag, leaving the pass in flight
\* where it is; the flag is read at the top of the loop, where a cleared flag
\* leads to the flush; once the flag is cleared no iteration begins (so only
\* the pass in flight can still complete), and the watcher then returns.
C15_Cancellation ==
    /\ [][/\ (running /\ ~running') =>
               UNCHANGED <<pc, last_rec_id, notifications, idx, handleVars,
                           fileVars, saveRet, crashed, passAttempts>>
          /\ (pc = "top" /\ pc' # pc) =>
               pc' = (IF running THEN "wait" ELSE "flush")
          /\ (~running /\ pc' = "wait") => pc = "wait"
          /\ (~running /\ pc' = "query") => pc = "wait"]_vars
    /\ (~running) ~> (pc = "done")

\* The flag was cleared while a pass was delivering its batch, and the pass
\* went on to its second event.
C15_Witness ==
    /\ ~running
    /\ pc = "loop"
    /\ idx = 2
    /\ Len(passAttempts) = 1

\* The steps of an iteration whose read returned batch: the wake, one read,
\* one filter/deliver step per event, and one save when the batch is not
\* empty.
ExpectedSteps(batch) ==
    <<"wake", "read">> \o [i \in 1..Len(batch) |-> "event"]
                      \o (IF batch # <<>> THEN <<"save">> ELSE <<>>)

\* C16: every return of the wait, whatever it reports, is followed by the
\* read and by nothing else; the steps of an iteration are at every moment
\* the first of: the wake, one read, the filter/deliver step of each event of
\* the batch in turn, one save if the batch is not empty; they are all of
\* them when the pass is over, and the next wait begins with none of them
\* pending.
C16_OnePassPerWake ==
    /\ pc = "wait" => passSteps = <<>>
    /\ pc = "query" => passSteps = <<"wake">>
    /\ pc \in {"loop", "wal", "wal_elif"} \cup SavePcs =>
           (saveRet = "shutdown" /\ pc \in SavePcs)
               \/ IsPrefix(passSteps, ExpectedSteps(notifications))
    /\ (pc = "loop" /\ saveRet # "shutdown") =>
           passSteps = SubSeq(ExpectedSteps(notifications), 1, idx + 1)
    /\ (pc \in {"wal", "wal_elif"} \/ (pc = "top" /\ passSteps # <<>>)) =>
           passSteps = ExpectedSteps(notifications)

\* An iteration woken by a delete/rename notification or a wait error has
\* read two events, handled both and saved once.
C16_Witness ==
    /\ pc = "top"
    /\ wal_was_deleted
    /\ passSteps = <<"wake", "read", "event", "event", "save">>
    /\ saveRes = "ok"

\* C17: a dry-run run makes no post_webhook call; and the step that handles
\* one event, the only place where dry_run and the sink's answer are read,
\* moves to the next event and leaves the in-memory cursor, the cursor file,
\* the batch and the rest of the watcher's state as they are, whatever
\* dry_run is and whatever the sink answered, so that the cursor values of a
\* run do not depend on either.
C17_DryRunSameCursor ==
    /\ [](dry_run => (passAttempts = <<>> /\ \A i \in 1..MaxRows : attempted[i] = 0))
    /\ [][(pc = "loop" /\ idx' # idx /\ crashed' = "no") =>
              /\ idx' = idx + 1
              /\ pc' = "loop"
              /\ UNCHANGED <<last_rec_id, notifications, stateFile, tmp, saveRet,
                             handleVars, walVars, wal_was_deleted, srcVars,
                             running, saveHist>>]_vars
    /\ [](PassDone => last_rec_id = (IF notifications # <<>>
                                     THEN BatchMax(notifications)
                                     ELSE passStart.cur))

\* A dry-run pass over a batch with an event the filter admits has saved the
\* batch's largest rec_id without any post_webhook call.
C17_Witness ==
    /\ dry_run
    /\ PassDone
    /\ AdmittedOf(notifications) # <<>>
    /\ saveRes = "ok"
    /\ stateFile = StateJson(BatchMax(notifications))
    /\ passAttempts = <<>>

\* A blob is a well-formed record: a plist whose top level is a dictionary,
\* whose "req" entry (if any) is a dictionary and whose "date" entry (if any)
\* is a number.
WellFormed(blob) ==
    /\ blob.parseable
    /\ blob.plist.t = "dict"
    /\ Get(blob.plist.v, "req", Dict(<<>>)).t = "dict"
    /\ Get(blob.plist.v, "date", Null).t \in {"null", "num"}

\* The rec_ids above cur whose blob is not a well-formed record.
Malformed(cur) ==
    {r.rec_id : r \in {q \in db : q.rec_id > cur /\ ~WellFormed(RowSamples[q.src].data)}}

\* C18: no blob makes the Decoder raise; a read that did not fail has skipped
\* exactly the records whose blob is not well-formed and returned the others.
C18_DecodeNeverFatal ==
    /\ crashed # "parse_notification"
    /\ (pc = "loop" /\ ~queryFailed) =>
           /\ skipped = Malformed(passStart.cur)
           /\ Len(notifications) + Cardinality(skipped)
                  = Cardinality({r \in db : r.rec_id > passStart.cur})

\* C19: no post_webhook call raises: each ends with True or False, and the
\* run is not ended by one.
C19_SinkNeverRaises ==
    /\ crashed # "post_webhook"
    /\ \A i \in 1..Len(passAttempts) : passAttempts[i].res \in {"True", "False"}

\* The four conditions of admission, on the trimmed title and body.
Admits(e, cfg) ==
    /\ e.app \in cfg.bundle_ids
    /\ Strip(e.title.v) # <<>>
    /\ Strip(e.body.v) # <<>>
    /\ Strip(e.title.v) # SYSTEM_ALERT_TITLE
    /\ \A i \in 1..Len(NOISE_PATTERNS) :
           /\ Strip(e.body.v) # NOISE_PATTERNS[i]
           /\ ~StartsWith(Strip(e.body.v), NOISE_PATTERNS[i])

\* The loop has handled the one event of the batch.
Handled == pc = "loop" /\ Len(notifications) = 1 /\ idx = 2

\* C20: the event is handed on to delivery iff its source is in the
\* configured set, its trimmed title and trimmed body are not empty, its
\* trimmed title is not "Microsoft Teams" and its trimmed body neither is nor
\* starts with a noise phrase; nothing else of the state enters the verdict,
\* and an event whose trimmed title is "Microsoft Teams" is rejected whatever
\* its body.
C20_FilterFourStages ==
    Handled =>
        /\ (passAttempts # <<>>) <=> Admits(notifications[1], config)
        /\ passes_filter(notifications[1], config) = Admits(notifications[1], config)
        /\ Strip(notifications[1].title.v) = SYSTEM_ALERT_TITLE => passAttempts = <<>>

\* An event from a configured source with the title " Microsoft Teams " and
\* the body "hi" was rejected.
C20_Witness ==
    /\ Handled
    /\ notifications[1].app \in config.bundle_ids
    /\ notifications[1].title.v = <<" ">> \o SYSTEM_ALERT_TITLE \o <<" ">>
    /\ notifications[1].body.v = T_hi
    /\ passAttempts = <<>>

\* The one event of the batch has been processed and a payload was built.
Classified == pc = "loop" /\ idx = 2 /\ Len(notifications) = 1 /\ Len(payloads) = 1

HasSeparator(s) == Contains(s, "|") \/ Contains(s, ">")

\* C21: for an admitted event exactly one payload is built, and its type is
\* one of mention, channel, direct: mention when the body contains '@'
\* whatever the subtitle is; otherwise channel when the trimmed subtitle is
\* non-empty and contains '|' or '>'; otherwise channel when the trimmed
\* subtitle is non-empty and differs from the trimmed title; otherwise direct.
C21_ClassificationPrecedence ==
    /\ (pc = "loop" /\ idx = 2 /\ Len(notifications) = 1) =>
          (Len(payloads) = 1 <=> Admits(notifications[1], config))
    /\ Classified =>
          LET e     == notifications[1]
              type  == payloads[1].type
              sub   == Strip(e.subtitle.v)
              at    == Contains(e.body.v, "@")
          IN  /\ type \in {"mention", "channel_message", "direct_message"}
              /\ at => type = "mention"
              /\ (~at /\ sub # <<>> /\ HasSeparator(sub)) => type = "channel_message"
              /\ (~at /\ sub # <<>> /\ ~HasSeparator(sub) /\ sub # Strip(e.title.v))
                    => type = "channel_message"
              /\ (~at /\ sub # <<>> /\ ~HasSeparator(sub) /\ sub = Strip(e.title.v))
                    => type = "direct_message"
              /\ (~at /\ sub = <<>>) => type = "direct_message"

\* A body with '@' under a subtitle with a separator was classified as a
\* mention.
C21_Witness ==
    /\ Classified
    /\ Contains(notifications[1].body.v, "@")
    /\ HasSeparator(Strip(notifications[1].subtitle.v))
    /\ payloads[1].type = "mention"

\* C22: the truncated flag of a payload is true iff the body has at least 150
\* characters and its last character is none of . ! ? " ' ) ; so 149 letters
\* are not truncated, 150 letters are, 300 characters ending in '?' are not.
C22_TruncationFlag ==
    Classified =>
        LET body == notifications[1].body.v
            last == body[Len(body)]
        IN  /\ payloads[1].truncated <=>
                 (Len(body) >= 150 /\ last \notin {".", "!", "?", "\"", "'", ")"})
            /\ (Len(body) = 149 => ~payloads[1].truncated)
            /\ (Len(body) = 150 /\ last = "a") => payloads[1].truncated
            /\ (Len(body) = 300 /\ last = "?") => ~payloads[1].truncated
            /\ payloads[1].content = notifications[1].body

\* A body of exactly 150 letters was flagged as truncated.
C22_Witness ==
    /\ Classified
    /\ notifications[1].body.v = Repeat("a", 150)
    /\ payloads[1].truncated


\* C23: load_state and then check_db_consistency run once, before the first
\* read, and never again: the check is entered only from the load, at a
\* moment when nothing of the loop has happened; every position of the loop
\* has the connection the check opened; the cursor the check returned is not
\* changed before the first read, which starts from it.
C23_StartupOrdering ==
    /\ [](pc \in {"load", "check"} =>
             (conn = "None" /\ kq = "None" /\ passSteps = <<>> /\ passStart = NoPass))
    /\ [](pc \in {"setup", "top", "wait", "query", "loop"} => conn = "open")
    /\ [][ /\ (pc' = "load" => pc = "load")
           /\ (pc' = "check" /\ pc # "check") => pc = "load"
           /\ (pc = "load" /\ pc' = "check") => last_rec_id' = FileValue(stateFile)
           /\ (pc = "check" /\ pc' = "setup") =>
                 last_rec_id' = (IF last_rec_id > MaxRecId(db) THEN 0 ELSE last_rec_id)
           /\ pc \in {"setup", "top", "wait", "query"} => last_rec_id' = last_rec_id
           /\ (pc = "query" /\ pc' = "loop") => passStart'.cur = last_rec_id
         ]_vars

\* The read after a startup that detected a purge started from 0 and
\* returned records, with the cursor file still as the run found it.
C23_Witness ==
    /\ pc = "loop"
    /\ purged
    /\ passStart = [cur |-> 0, file |-> StateJson(2)]
    /\ notifications # <<>>


\* The save of the current iteration has returned.
SaveReturned == pc \in {"wal", "wal_elif", "top", "finally", "done"}

\* C24: a failed save of a pass leaves the in-memory cursor at the batch
\* maximum and the file as it was; every read starts from the in-memory
\* cursor and returns only records beyond it, so that outside the for loop
\* no delivered record lies beyond the cursor and none is read again; and a
\* save that succeeds, in a later pass or at shutdown, leaves the file at the
\* in-memory cursor of that moment.
C24_FailedSaveAbsorbed ==
    /\ (SaveReturned /\ saveRes = "failed" /\ saveRet = "pass") =>
          (last_rec_id = BatchMax(notifications) /\ stateFile = saveOld)
    /\ pc = "loop" =>
          /\ passStart.cur = last_rec_id
          /\ \A i \in 1..Len(notifications) : notifications[i].rec_id > last_rec_id
    /\ (pc # "loop" /\ crashed = "no") =>
          \A i \in 1..MaxRows : attempted[i] > 0 => i <= last_rec_id
    /\ (SaveReturned /\ saveRes = "ok") => stateFile = StateJson(last_rec_id)

\* The save of the pass over record 1 failed (the file is still absent and
\* the pass after it started from 1); that pass read the records after 1,
\* and its save put the cursor 3 in the file.
C24_Witness ==
    /\ pc = "wal"
    /\ saveRes = "ok"
    /\ passStart = [cur |-> 1, file |-> Absent]
    /\ attempted[1] = 1
    /\ Len(notifications) = 2
    /\ last_rec_id = 3
    /\ stateFile = StateJson(3)


\* C25: from the end of the startup consistency check until the run ends, the
\* value in the cursor file is at most the in-memory cursor.
C25_DiskNotAhead ==
    pc \notin {"load", "check"} => FileValue(stateFile) <= last_rec_id


\* The number of handle variables that refer to an open descriptor.
HeldOpen == (IF fd = "open" THEN 1 ELSE 0) + (IF kq = "open" THEN 1 ELSE 0)

\* C26: at the top of the loop the kqueue, the descriptor and the event are
\* all present or all absent; the loop does not wait on a closed handle; the
\* process holds at most one kqueue and one descriptor of the WAL, exactly
\* those its variables refer to (a handle closed a second time, or an old one
\* left open, would make the two counts differ); and until the final cleanup
\* no variable refers to a closed handle.
C26_HandleOwnership ==
    /\ pc = "top" => \/ (kq = "open" /\ fd = "open" /\ kev = "set")
                     \/ (kq = "None" /\ fd = "None" /\ kev = "None")
    /\ pc = "wait" => (kq # "closed" /\ fd # "closed")
    /\ osOpen = HeldOpen
    /\ osOpen \in {0, 2}
    /\ pc \notin {"done"} => (kq # "closed" /\ fd # "closed")

\* The watch was torn down and built again on the new WAL file.
C26_Witness ==
    /\ pc = "top"
    /\ wal_was_deleted
    /\ kq = "open" /\ fd = "open" /\ kev = "set"
    /\ ~fdStale
    /\ osOpen = 2
    /\ last_rec_id = 2


\* The pass of the current iteration is over and its read returned no event.
EmptyPassOver ==
    /\ pc \in {"wal", "wal_elif"} \/ (pc = "top" /\ passSteps # <<>>)
    /\ notifications = <<>>

\* C27: a pass whose read returned no event left the in-memory cursor and the
\* cursor file as they were when it read, called neither save_state nor
\* post_webhook, and built no payload: it consisted of the wake and the read.
C27_EmptyPassFrame ==
    EmptyPassOver =>
        /\ last_rec_id = passStart.cur
        /\ stateFile = passStart.file
        /\ saveRes = "none" /\ saveOld = Absent /\ tmp = Absent
        /\ passAttempts = <<>> /\ payloads = <<>>
        /\ passSteps = <<"wake", "read">>

\* After a pass that delivered record 2 and saved, a pass read nothing.
C27_Witness ==
    /\ pc = "wal"
    /\ notifications = <<>>
    /\ passStart = [cur |-> 2, file |-> StateJson(2)]
    /\ attempted[2] = 1
    /\ Cardinality(db) = 2
    /\ passSteps = <<"wake", "read">>


====
